---- MODULE Spec2Model ----
(***************************************************************************)
(* Model of transformer.py (PLY to LAS transformer): ply_to_array,         *)
(* generate_las_from_ply and perform_process.                              *)
(*                                                                         *)
(* Numbers.  The program computes in floating point; the model computes    *)
(* exactly, in fixed point: every coordinate, offset and bound is an       *)
(* integer count of millionths (Micro) of the unit the program holds it    *)
(* in.  2.070 is 2070000, "x * 0.001" is "x \div 1000" (exact here: every  *)
(* value it is applied to is a multiple of 1000).  Rounding error, NaN and *)
(* infinities are outside the model.                                       *)
(*                                                                         *)
(* Text.  A path is a sequence of one-character strings, so that find,     *)
(* endswith, replace and os.path.join are computed and not assumed.        *)
(***************************************************************************)
EXTENDS Integers, Sequences, FiniteSets, TLC

\* ------------------------------------------------------------- bounds
MaxFiles == 2
MaxPoints == 2

\* ---------------------------------------------------------- constants
MM_PER_METER == 1000
Micro == 1000 * 1000

\* -------------------------------------------------------------- text
West == <<"w", "e", "s", "t">>
DotPly == <<".", "p", "l", "y">>
DotLas == <<".", "l", "a", "s">>
Slash == <<"/">>

\* the files list_files() may list
EastFile == <<"e", "a", "s", "t">> \o DotPly
WestFile == <<"a", "w", "e", "s", "t">> \o DotPly
CapsFile == <<"W", "e", "s", "t">> \o DotPly
TextFile == <<"w", "e", "s", "t", ".", "t", "x", "t">>
Files == {EastFile, WestFile, CapsFile, TextFile}
Folders == {<<"d">>}

\* str.find(sub): the lowest index (from 0) where sub occurs, or -1
Find(s, sub) ==
  LET hits == {i \in 0..(Len(s) - Len(sub)) : SubSeq(s, i + 1, i + Len(sub)) = sub}
  IN IF hits = {} THEN -1 ELSE CHOOSE i \in hits : \A j \in hits : i <= j

\* str.endswith(suffix)
EndsWith(s, suffix) ==
  /\ Len(s) >= Len(suffix)
  /\ SubSeq(s, Len(s) - Len(suffix) + 1, Len(s)) = suffix

\* str.replace(old, new): every non-overlapping occurrence, left to right
RECURSIVE Replace(_, _, _)
Replace(s, old, new) ==
  LET i == Find(s, old)
  IN IF i = -1 THEN s
     ELSE SubSeq(s, 1, i) \o new \o Replace(SubSeq(s, i + Len(old) + 1, Len(s)), old, new)

\* os.path.join(a, b)
PathJoin(a, b) ==
  IF Len(b) > 0 /\ b[1] = "/" THEN b
  ELSE IF a = <<>> \/ EndsWith(a, Slash) THEN a \o b
  ELSE a \o Slash \o b

\* ------------------------------------------------------------ arrays
Range(s) == {s[i] : i \in 1..Len(s)}
\* numpy broadcasting: array + scalar
AddScalar(a, c) == [i \in 1..Len(a) |-> a[i] + c]
\* array * 0.001
Thousandth(a) == [i \in 1..Len(a) |-> a[i] \div 1000]
\* np.min / np.max of a non-empty array
NpMin(a) == CHOOSE m \in Range(a) : \A v \in Range(a) : m <= v
NpMax(a) == CHOOSE m \in Range(a) : \A v \in Range(a) : m >= v
\* np.floor
NpFloor(v) == (v \div Micro) * Micro
\* mutants of Concatenate: the new array replaces, or goes before, the old one
ConcatenateOverwrites(a, b) == b
ConcatenatePrepends(a, b) == b \o a
\* np.concatenate([a, b])
Concatenate(a, b) == a \o b
\* plydata['vertex'][axis]: one coordinate of every vertex
Column(vertex, k) == [i \in 1..Len(vertex) |-> vertex[i][k]]
\* sequences over S without repetition, of length 0..hi
DistinctSeqs(S, hi) ==
  {s \in UNION {[1..n -> S] : n \in 0..hi} : \A i, j \in 1..Len(s) : i # j => s[i] # s[j]}

\* ------------------------------------------------------------ inputs
\* vertices a PLY file may hold, <<x, y, z>> in raw sensor units; a file holds
\* 0..MaxPoints of them, a run of this cycle from any of its vertices
RawPoints == << <<0, 0, 0>>, <<-3 * Micro, 5 * Micro + 500000, 2 * Micro>> >>
\* what PlyData.read may return
PlyContents ==
  {[i \in 1..n |-> RawPoints[((a + i - 2) % Len(RawPoints)) + 1]] :
     a \in 1..Len(RawPoints), n \in 0..MaxPoints}

OriginA == [x |-> 10 * Micro, y |-> 20 * Micro, z |-> 5 * Micro]
OriginB == [x |-> -2 * Micro, y |-> 7 * Micro, z |-> 0]
\* sensor_variable_metadata: scan_distance_mm, scan_direction, point_cloud_origin_m.east
MetadataA == {[scan_distance_mm |-> 4000, scan_direction |-> d, origin |-> OriginA] : d \in {0, 2}}
MetadataB == {[scan_distance_mm |-> 2500, scan_direction |-> d, origin |-> OriginB] : d \in {-1, 1}}

\* scanalyzer_to_utm (terrautils) is an affine map of the gantry plane,
\* utm_x = ax + bx*gx + cx*gy and utm_y = ay + by*gx + cy*gy; the model runs
\* under two coefficient sets: a quarter turn (the signs of the library's own
\* map) and a shear with a reflection
ProjectionA == [ax |-> 409 * Micro, bx |-> 0, cx |-> -1, ay |-> 365 * Micro, by |-> 1, cy |-> 0]
ProjectionB == [ax |-> -7 * Micro, bx |-> 2, cx |-> 1, ay |-> 11 * Micro, by |-> -1, cy |-> 3]
\* the metadata and projection of a run
Environments == (MetadataA \X {ProjectionA}) \cup (MetadataB \X {ProjectionB})

VARIABLES
  file_list, working_folder, metadata, geo,        \* the environment
  pc, caller, raised,                               \* control; what raised, if anything
  input_paths, output_path, scan_distance, scan_direction, point_cloud_origin, utm,
  first, idx, curr_side, cambox,                    \* ply_to_array's locals
  merged_x, merged_y, merged_z, fix_x, fix_y, fix_z, utm_x, utm_y, utm_z,
  x_pts, y_pts, z_pts, min_x_utm, min_y_utm, max_x_utm, max_y_utm,
  bounds,                                           \* ply_to_array's returned bounds
  las,                                              \* the laspy writer
  result,                                           \* perform_process's result
  captures                                          \* history: what each read returned

env == <<file_list, working_folder, metadata, geo>>
args == <<input_paths, output_path, scan_distance, scan_direction, point_cloud_origin, utm>>
locals == <<first, idx, curr_side, cambox, merged_x, merged_y, merged_z,
            fix_x, fix_y, fix_z, utm_x, utm_y, utm_z,
            x_pts, y_pts, z_pts, min_x_utm, min_y_utm, max_x_utm, max_y_utm>>
vars == <<env, pc, caller, raised, args, locals, bounds, las, result, captures>>

\* ------------------------------------------------- ply_to_array, pieces
\* mutant of SideOf: a west capture leaves every later capture west
SideSticky(plyf) == IF Find(plyf, West) > -1 \/ curr_side = "west" THEN "west" ELSE "east"
SideOf(plyf) == IF Find(plyf, West) > -1 THEN "west" ELSE "east"

CamboxOf(side) ==
  IF side = "west" THEN <<2070000, 2726000, 1135000>> ELSE <<2070000, 306000, 1135000>>

FixX(mx, cb) == AddScalar(mx, cb[1] + 82000)

\* mutant of FixY: only scan_direction 1 takes the direction-1 constants
FixYStrict(my, cb, dist, dir, side) ==
  IF dir = 1
  THEN AddScalar(my, 2 * cb[2] - dist \div 2 + (IF side = "east" THEN 4200000 ELSE -3430000))
  ELSE AddScalar(my, 2 * cb[2] - dist \div 2 + (IF side = "east" THEN -354000 ELSE -4363000))
FixY(my, cb, dist, dir, side) ==
  IF dir = 0
  THEN AddScalar(my, 2 * cb[2] - dist \div 2 + (IF side = "east" THEN -354000 ELSE -4363000))
  ELSE AddScalar(my, 2 * cb[2] - dist \div 2 + (IF side = "east" THEN 4200000 ELSE -3430000))

FixZ(mz, cb) == AddScalar(mz, cb[3])

\* the arguments of scanalyzer_to_utm
GantryX(fx, origin) == AddScalar(Thousandth(fx), origin.x)
GantryY(fy, origin, dir) ==
  IF dir = 0
  THEN AddScalar(Thousandth(fy), origin.y \div 2 - 100000)
  ELSE AddScalar(Thousandth(fy), origin.y \div 2 + 400000)

UtmZ(fz, origin) == AddScalar(Thousandth(fz), origin.z)

\* scanalyzer_to_utm(gx, gy), element by element
ScanalyzerToUtmX(g, gx, gy) == [i \in 1..Len(gx) |-> g.ax + g.bx * gx[i] + g.cx * gy[i]]
ScanalyzerToUtmY(g, gx, gy) == [i \in 1..Len(gx) |-> g.ay + g.by * gx[i] + g.cy * gy[i]]

\* mutant of SelectX: the projected array whatever the flag
SelectAlwaysUtm(u, ux, fx) == ux
\* which arrays are appended
SelectX(u, ux, fx) == IF u THEN ux ELSE fx
SelectY(u, uy, fy) == IF u THEN uy ELSE fy

\* mutant of WidenMin: the latest capture's minimum replaces the running one
WidenTakesNew(old, new) == new
\* the running bounds' combine
WidenMin(old, new) == IF old < new THEN old ELSE new
WidenMax(old, new) == IF old > new THEN old ELSE new

\* mutant of BoundsArrayX: the bounds follow the appended array
BoundsArraySelected(ux, fx) == IF utm THEN ux ELSE fx
\* the array a capture's x (y) bounds are taken over
BoundsArrayX(ux, fx) == ux
BoundsArrayY(uy, fy) == uy

BoundsTuple(mnx, mny, mxx, mxy) == <<mny, mxy, mnx, mxx>>

\* ---------------------------------------------------------------- Init
NoLas == [opened |-> FALSE, closed |-> FALSE]

Init ==
  /\ file_list \in DistinctSeqs(Files, MaxFiles)
  /\ working_folder \in Folders
  /\ \E e \in Environments : metadata = e[1] /\ geo = e[2]
  /\ pc = "idle"
  /\ caller = "none"
  /\ raised = "no"
  /\ input_paths = <<>>
  /\ output_path = <<>>
  /\ scan_distance = 0
  /\ scan_direction = 0
  /\ point_cloud_origin = OriginA
  /\ utm = TRUE
  /\ first = TRUE
  /\ idx = 1
  /\ curr_side = "east"
  /\ cambox = <<>>
  /\ merged_x = <<>> /\ merged_y = <<>> /\ merged_z = <<>>
  /\ fix_x = <<>> /\ fix_y = <<>> /\ fix_z = <<>>
  /\ utm_x = <<>> /\ utm_y = <<>> /\ utm_z = <<>>
  /\ x_pts = <<>> /\ y_pts = <<>> /\ z_pts = <<>>
  /\ min_x_utm = 0 /\ min_y_utm = 0 /\ max_x_utm = 0 /\ max_y_utm = 0
  /\ bounds = <<>>
  /\ las = NoLas
  /\ result = <<>>
  /\ captures = <<>>

\* the .ply files of file_list, joined to the working folder, in listing order
RECURSIVE PlyFiles(_, _)
PlyFiles(folder, list) ==
  IF list = <<>> THEN <<>>
  ELSE (IF EndsWith(Head(list), DotPly) THEN <<PathJoin(folder, Head(list))>> ELSE <<>>)
       \o PlyFiles(folder, Tail(list))

\* float(scan_distance_mm)/MM_PER_METER
ScanDistance(mm) == mm * (Micro \div MM_PER_METER)

\* entering ply_to_array from generate_las_from_ply
EnterPlyToArray(paths, out, dist, dir, origin, u) ==
  /\ input_paths' = paths
  /\ output_path' = out
  /\ scan_distance' = dist
  /\ scan_direction' = dir
  /\ point_cloud_origin' = origin
  /\ utm' = u
  /\ first' = TRUE
  /\ idx' = 1
  /\ pc' = "ply_to_array"

\* perform_process up to its call of generate_las_from_ply, or to its return
\* when no .ply file is listed
PerformProcess ==
  /\ pc = "idle"
  /\ caller' = "perform_process"
  /\ LET ply_files == PlyFiles(working_folder, file_list)
     IN IF ply_files # <<>>
        THEN /\ EnterPlyToArray(ply_files, Replace(ply_files[1], DotPly, DotLas),
                                ScanDistance(metadata.scan_distance_mm),
                                metadata.scan_direction, metadata.origin, TRUE)
             /\ UNCHANGED result
        ELSE /\ pc' = "done"
             /\ result' = [code |-> 0, file |-> <<>>, transformer |-> "md"]
             /\ UNCHANGED <<args, first, idx>>
  /\ UNCHANGED <<env, raised, curr_side, cambox, merged_x, merged_y, merged_z, fix_x, fix_y, fix_z,
                 utm_x, utm_y, utm_z, x_pts, y_pts, z_pts,
                 min_x_utm, min_y_utm, max_x_utm, max_y_utm, bounds, las, captures>>

\* generate_las_from_ply called directly, with either value of utm
GenerateLasFromPly ==
  /\ pc = "idle"
  /\ caller' = "direct"
  /\ \E u \in BOOLEAN :
       LET ply_files == PlyFiles(working_folder, file_list)
       IN EnterPlyToArray(ply_files,
                          IF ply_files = <<>> THEN DotLas ELSE Replace(ply_files[1], DotPly, DotLas),
                          ScanDistance(metadata.scan_distance_mm),
                          metadata.scan_direction, metadata.origin, u)
  /\ UNCHANGED <<env, raised, curr_side, cambox, merged_x, merged_y, merged_z, fix_x, fix_y, fix_z,
                 utm_x, utm_y, utm_z, x_pts, y_pts, z_pts,
                 min_x_utm, min_y_utm, max_x_utm, max_y_utm, bounds, las, result, captures>>

\* one iteration of ply_to_array's loop in which nothing raises
FoldCapture ==
  /\ pc = "ply_to_array"
  /\ idx <= Len(input_paths)
  /\ \E vertex \in PlyContents :
       /\ vertex # <<>>
       /\ LET plyf == input_paths[idx]
              side == SideOf(plyf)
              cb == CamboxOf(side)
              mx == Column(vertex, 1)
              my == Column(vertex, 2)
              mz == Column(vertex, 3)
              fx == FixX(mx, cb)
              fy == FixY(my, cb, scan_distance, scan_direction, side)
              gx == GantryX(fx, point_cloud_origin)
              gy == GantryY(fy, point_cloud_origin, scan_direction)
              ux == ScanalyzerToUtmX(geo, gx, gy)
              uy == ScanalyzerToUtmY(geo, gx, gy)
              fz == FixZ(mz, cb)
              uz == UtmZ(fz, point_cloud_origin)
              bx == BoundsArrayX(ux, fx)
              by == BoundsArrayY(uy, fy)
          IN /\ curr_side' = side
             /\ cambox' = cb
             /\ merged_x' = mx /\ merged_y' = my /\ merged_z' = mz
             /\ fix_x' = fx /\ fix_y' = fy /\ fix_z' = fz
             /\ utm_x' = ux /\ utm_y' = uy /\ utm_z' = uz
             /\ IF first
                THEN /\ x_pts' = SelectX(utm, ux, fx)
                     /\ y_pts' = SelectY(utm, uy, fy)
                     /\ z_pts' = uz
                     /\ min_x_utm' = NpMin(bx)
                     /\ min_y_utm' = NpMin(by)
                     /\ max_x_utm' = NpMax(bx)
                     /\ max_y_utm' = NpMax(by)
                ELSE /\ x_pts' = Concatenate(x_pts, SelectX(utm, ux, fx))
                     /\ y_pts' = Concatenate(y_pts, SelectY(utm, uy, fy))
                     /\ z_pts' = Concatenate(z_pts, uz)
                     /\ min_x_utm' = WidenMin(min_x_utm, NpMin(bx))
                     /\ min_y_utm' = WidenMin(min_y_utm, NpMin(by))
                     /\ max_x_utm' = WidenMax(max_x_utm, NpMax(bx))
                     /\ max_y_utm' = WidenMax(max_y_utm, NpMax(by))
             /\ captures' = Append(captures, vertex)
  /\ first' = FALSE
  /\ idx' = idx + 1
  /\ UNCHANGED <<env, pc, caller, raised, args, bounds, las, result>>

\* the locals of a frame an exception unwinds
Unwound ==
  /\ x_pts' = <<>> /\ y_pts' = <<>> /\ z_pts' = <<>>
  /\ min_x_utm' = 0 /\ min_y_utm' = 0 /\ max_x_utm' = 0 /\ max_y_utm' = 0
  /\ merged_x' = <<>> /\ merged_y' = <<>> /\ merged_z' = <<>>
  /\ fix_x' = <<>> /\ fix_y' = <<>> /\ fix_z' = <<>>
  /\ utm_x' = <<>> /\ utm_y' = <<>> /\ utm_z' = <<>>

\* mutant of FoldRaises: the exception is swallowed and the loop goes on
FoldSwallows ==
  /\ pc = "ply_to_array"
  /\ idx <= Len(input_paths)
  /\ \E why \in {"read", "projection", "empty"} : raised' = why
  /\ idx' = idx + 1
  /\ UNCHANGED <<env, pc, caller, args, first, curr_side, cambox, merged_x, merged_y, merged_z,
                 fix_x, fix_y, fix_z, utm_x, utm_y, utm_z, x_pts, y_pts, z_pts,
                 min_x_utm, min_y_utm, max_x_utm, max_y_utm, bounds, las, result, captures>>

\* one iteration of the loop that raises: PlyData.read raises, scanalyzer_to_utm
\* raises, or the file holds no vertex and np.min raises on the empty array
FoldRaises ==
  /\ pc = "ply_to_array"
  /\ idx <= Len(input_paths)
  /\ \E why \in {"read", "projection", "empty"} : raised' = why
  /\ curr_side' = SideOf(input_paths[idx])
  /\ cambox' = CamboxOf(SideOf(input_paths[idx]))
  /\ Unwound
  /\ pc' = "raised"
  /\ UNCHANGED <<env, caller, args, first, idx, bounds, las, result, captures>>

\* ply_to_array after its loop: the bounds tuple and the return; with no input
\* path the running bounds are unbound names and building the tuple raises
PlyToArrayReturn ==
  /\ pc = "ply_to_array"
  /\ idx > Len(input_paths)
  /\ IF first
     THEN /\ pc' = "raised"
          /\ raised' = "unbound"
          /\ Unwound
          /\ UNCHANGED bounds
     ELSE /\ pc' = "generate_las"
          /\ UNCHANGED raised
          /\ bounds' = BoundsTuple(min_x_utm, min_y_utm, max_x_utm, max_y_utm)
          /\ UNCHANGED <<merged_x, merged_y, merged_z, fix_x, fix_y, fix_z, utm_x, utm_y, utm_z,
                         x_pts, y_pts, z_pts, min_x_utm, min_y_utm, max_x_utm, max_y_utm>>
  /\ UNCHANGED <<env, caller, args, first, idx, curr_side, cambox, las, result, captures>>

\* the header and data generate_las_from_ply hands to the laspy writer
LasScale(u) == IF u THEN <<1, 1, 1>> ELSE <<Micro, Micro, 1>>

\* mutant of LasOf: the axes are not swapped
LasUnswapped(out, xs, ys, zs, u) ==
  [opened |-> TRUE, closed |-> TRUE, path |-> out,
   offset |-> <<NpFloor(NpMin(xs)), NpFloor(NpMin(ys)), NpFloor(NpMin(zs))>>,
   scale |-> LasScale(u),
   x |-> xs, y |-> ys, z |-> zs,
   x_max |-> NpMax(xs), x_min |-> NpMin(xs),
   y_max |-> NpMax(ys), y_min |-> NpMin(ys),
   z_max |-> NpMax(zs), z_min |-> NpMin(zs)]

LasOf(out, xs, ys, zs, u) ==
  [opened |-> TRUE, closed |-> TRUE, path |-> out,
   offset |-> <<NpFloor(NpMin(ys)), NpFloor(NpMin(xs)), NpFloor(NpMin(zs))>>,
   scale |-> LasScale(u),
   x |-> ys, y |-> xs, z |-> zs,
   x_max |-> NpMax(ys), x_min |-> NpMin(ys),
   y_max |-> NpMax(xs), y_min |-> NpMin(xs),
   z_max |-> NpMax(zs), z_min |-> NpMin(zs)]

\* generate_las_from_ply after ply_to_array returned: the writer is opened,
\* filled and closed
WriteLas ==
  /\ pc = "generate_las"
  /\ las' = LasOf(output_path, x_pts, y_pts, z_pts, utm)
  /\ pc' = "written"
  /\ UNCHANGED <<env, caller, raised, args, locals, bounds, result, captures>>

\* the laspy writer raises while the file is being written
WriteRaises ==
  /\ pc = "generate_las"
  /\ las' = [opened |-> TRUE, closed |-> FALSE]
  /\ pc' = "raised"
  /\ raised' = "write"
  /\ UNCHANGED <<env, caller, args, locals, bounds, result, captures>>

\* perform_process after generate_las_from_ply returned
PerformProcessReturn ==
  /\ pc = "written"
  /\ caller = "perform_process"
  /\ result' = [code |-> 0, file |-> <<[path |-> output_path, source |-> file_list]>>,
                transformer |-> "md"]
  /\ pc' = "done"
  /\ UNCHANGED <<env, caller, raised, args, locals, bounds, las, captures>>

\* perform_process's except clause
PerformProcessExcept ==
  /\ pc = "raised"
  /\ caller = "perform_process"
  /\ result' = [code |-> -1, error |-> "Exception caught converting PLY files"]
  /\ pc' = "done"
  /\ UNCHANGED <<env, caller, raised, args, locals, bounds, las, captures>>

Next ==
  \/ PerformProcess
  \/ GenerateLasFromPly
  \/ FoldCapture
  \/ FoldRaises
  \/ PlyToArrayReturn
  \/ WriteLas
  \/ WriteRaises
  \/ PerformProcessReturn
  \/ PerformProcessExcept

Spec == Init /\ [][Next]_vars

\* ======================================================== the claims
\* ply_to_array is between two iterations of its loop or has just returned:
\* the states in which its accumulators and locals are read (no later step
\* assigns them)
Live == raised = "no" /\ pc \in {"ply_to_array", "generate_las"}
\* ply_to_array has returned
Returned == bounds # <<>>

RECURSIVE SumLen(_)
SumLen(cs) == IF cs = <<>> THEN 0 ELSE Len(Head(cs)) + SumLen(Tail(cs))
\* where capture i's points lie in a merged array
Segment(arr, i) ==
  LET off == SumLen(SubSeq(captures, 1, i - 1))
  IN SubSeq(arr, off + 1, off + Len(captures[i]))
LastSegment(arr) == Segment(arr, Len(captures))

\* capture i's arrays, from its path and what its read returned
CapSide(i) == SideOf(input_paths[i])
CapFixX(i) == FixX(Column(captures[i], 1), CamboxOf(CapSide(i)))
CapFixY(i) ==
  FixY(Column(captures[i], 2), CamboxOf(CapSide(i)), scan_distance, scan_direction, CapSide(i))
CapGantryX(i) == GantryX(CapFixX(i), point_cloud_origin)
CapGantryY(i) == GantryY(CapFixY(i), point_cloud_origin, scan_direction)
CapUtmX(i) == ScanalyzerToUtmX(geo, CapGantryX(i), CapGantryY(i))
CapUtmY(i) == ScanalyzerToUtmY(geo, CapGantryX(i), CapGantryY(i))
CapUtmZ(i) == UtmZ(FixZ(Column(captures[i], 3), CamboxOf(CapSide(i))), point_cloud_origin)
RECURSIVE Flatten(_)
Flatten(ss) == IF ss = <<>> THEN <<>> ELSE Head(ss) \o Flatten(Tail(ss))
AllUtmX == Flatten([i \in 1..Len(captures) |-> CapUtmX(i)])
AllUtmY == Flatten([i \in 1..Len(captures) |-> CapUtmY(i)])
AllUtmZ == Flatten([i \in 1..Len(captures) |-> CapUtmZ(i)])
IsMinOf(v, arr) == (\E k \in 1..Len(arr) : arr[k] = v) /\ (\A k \in 1..Len(arr) : v <= arr[k])
IsMaxOf(v, arr) == (\E k \in 1..Len(arr) : arr[k] = v) /\ (\A k \in 1..Len(arr) : v >= arr[k])
ContainsWest(p) ==
  \E i \in 1..(Len(p) - 3) : p[i] = "w" /\ p[i + 1] = "e" /\ p[i + 2] = "s" /\ p[i + 3] = "t"

\* C1: while captures are folded in, and at the return, x_pts, y_pts and z_pts
\* have one length, the sum of the point counts of the captures folded so far;
\* at the return every capture of the (non-empty) list has been folded in.
C1_Lengths ==
  Live =>
    /\ Len(x_pts) = SumLen(captures)
    /\ Len(y_pts) = SumLen(captures)
    /\ Len(z_pts) = SumLen(captures)
    /\ Returned => Len(captures) = Len(input_paths) /\ Len(input_paths) >= 1
C1_Witness ==
  /\ pc = "generate_las" /\ Returned /\ ~utm
  /\ Len(captures) = 2 /\ Len(captures[1]) = 2 /\ Len(captures[2]) = 1
  /\ Len(x_pts) = 3

\* C2: capture i's selected points (projected when utm, corrected otherwise; z
\* always the converted z) lie in the merged arrays right after those of the
\* captures before it, in the capture's own point order; this holds after
\* every fold, so a later capture only appends.
C2_Order ==
  Live =>
    \A i \in 1..Len(captures) :
      /\ Segment(x_pts, i) = (IF utm THEN CapUtmX(i) ELSE CapFixX(i))
      /\ Segment(y_pts, i) = (IF utm THEN CapUtmY(i) ELSE CapFixY(i))
      /\ Segment(z_pts, i) = CapUtmZ(i)
C2_Witness ==
  /\ pc = "generate_las" /\ Returned
  /\ Len(captures) = 2 /\ Len(captures[1]) = 2 /\ Len(captures[2]) = 2
  /\ captures[1] # captures[2]
  /\ SubSeq(x_pts, 1, 2) # SubSeq(x_pts, 3, 4)
  /\ x_pts[1] # x_pts[2]

\* C3: after each fold the running minimum (maximum) of x is at most (at
\* least) every projected x of every capture folded so far and is one of
\* them, so it is their minimum (maximum) and a further fold can only lower
\* (raise) it; the same for y; the returned tuple is
\* (min_y_utm, max_y_utm, min_x_utm, max_x_utm).
C3_Bounds ==
  (Live /\ Len(captures) >= 1) =>
    /\ \A i \in 1..Len(captures) :
         LET ux == CapUtmX(i)
             uy == CapUtmY(i)
         IN \A k \in 1..Len(captures[i]) :
              /\ min_x_utm <= ux[k] /\ ux[k] <= max_x_utm
              /\ min_y_utm <= uy[k] /\ uy[k] <= max_y_utm
    /\ \E i \in 1..Len(captures) : min_x_utm \in Range(CapUtmX(i))
    /\ \E i \in 1..Len(captures) : max_x_utm \in Range(CapUtmX(i))
    /\ \E i \in 1..Len(captures) : min_y_utm \in Range(CapUtmY(i))
    /\ \E i \in 1..Len(captures) : max_y_utm \in Range(CapUtmY(i))
    /\ Returned => bounds = <<min_y_utm, max_y_utm, min_x_utm, max_x_utm>>
C3_Witness ==
  /\ pc = "generate_las" /\ Returned /\ Len(captures) = 2
  /\ min_x_utm < NpMin(utm_x)
  /\ max_y_utm > NpMax(utm_y)
  /\ bounds[1] = min_y_utm /\ bounds[3] = min_x_utm /\ bounds[1] # bounds[3]

\* C4: the returned bounds and the merged z are given by the captures, the
\* scan parameters and the projection alone: the bounds are the minimum and
\* maximum of the projected y and x of all captures, z_pts is the converted z
\* of all captures, and neither expression reads the utm flag, so the run
\* with utm and the run without return the same bounds and the same z_pts.
C4_BoundsIgnoreUtm ==
  pc = "generate_las" =>
    LET ay == AllUtmY
        ax == AllUtmX
    IN /\ IsMinOf(bounds[1], ay) /\ IsMaxOf(bounds[2], ay)
       /\ IsMinOf(bounds[3], ax) /\ IsMaxOf(bounds[4], ax)
       /\ z_pts = AllUtmZ
C4_Witness ==
  /\ pc = "generate_las" /\ Returned /\ ~utm /\ Len(captures) = 2
  /\ x_pts # AllUtmX /\ y_pts # AllUtmY
  /\ ~IsMinOf(bounds[3], x_pts) /\ ~IsMinOf(bounds[1], y_pts)

\* the end-to-end example: one east capture holding the raw point (0,0,0),
\* scan_direction 0, scan_distance 4.0, origin {x:10, y:20, z:5}, utm false
Example ==
  /\ ~utm /\ Len(captures) = 1 /\ captures[1] = << <<0, 0, 0>> >>
  /\ ~ContainsWest(input_paths[1])
  /\ scan_direction = 0 /\ scan_distance = 4 * Micro /\ point_cloud_origin = OriginA
AnchorYTerm == IF scan_direction = 0 THEN -100000 ELSE 400000

\* C5 as stated: with utm false the appended x and y are the anchor-frame
\* pair handed to the projection (fix/1000 + origin term), and the example
\* appends (12.152, 8.158, anchor_z).
C5_AsStated ==
  (Live /\ ~utm /\ Len(captures) >= 1) =>
    /\ \A k \in 1..Len(fix_x) :
         /\ LastSegment(x_pts)[k] = fix_x[k] \div 1000 + point_cloud_origin.x
         /\ LastSegment(y_pts)[k] =
              fix_y[k] \div 1000 + point_cloud_origin.y \div 2 + AnchorYTerm
    /\ Example => x_pts = <<12152000>> /\ y_pts = <<8158000>>

\* C5 amended: with utm false the appended x and y are the corrected
\* coordinates fix_x and fix_y themselves (raw value plus the offsets, never
\* multiplied by 0.001 and with no origin term) and not the pair computed
\* from them for the projection; only z is converted, fix_z * 0.001 +
\* origin.z; the example appends (2.152, -1.742, 5.001135).
C5_Amended ==
  (Live /\ ~utm /\ Len(captures) >= 1) =>
    /\ LastSegment(x_pts) = fix_x
    /\ LastSegment(y_pts) = fix_y
    /\ LET xs == LastSegment(x_pts)
           zs == LastSegment(z_pts)
       IN \A k \in 1..Len(fix_x) :
            /\ xs[k] = merged_x[k] + 2070000 + 82000
            /\ zs[k] = (merged_z[k] + 1135000) \div 1000 + point_cloud_origin.z
    /\ Example => x_pts = <<2152000>> /\ y_pts = <<-1742000>> /\ z_pts = <<5001135>>
C5_Witness ==
  /\ pc = "generate_las" /\ Returned /\ Example
  /\ x_pts = <<2152000>> /\ y_pts = <<-1742000>> /\ z_pts = <<5001135>>

\* the calibration constant of a side and direction, in thousandths
Calibration(side, dir) ==
  IF dir = 0 THEN (IF side = "east" THEN -354000 ELSE -4363000)
  ELSE (IF side = "east" THEN 4200000 ELSE -3430000)

\* C6 as stated, in thousandths of a raw unit (millimeter): the corrected
\* values are the raw values plus the offsets in millimeters,
\* fixed_x = raw_x + offset_x*1000 + 82, fixed_z = raw_z + offset_z*1000,
\* fixed_y = raw_y + 2*offset_y*1000 - scan_distance_mm/2 + c.
C6_AsStated ==
  (Live /\ Len(captures) >= 1) =>
    \A k \in 1..Len(fix_x) :
      /\ fix_x[k] \div 1000 = merged_x[k] \div 1000 + cambox[1] + 82000
      /\ fix_z[k] \div 1000 = merged_z[k] \div 1000 + cambox[3]
      /\ fix_y[k] \div 1000 = merged_y[k] \div 1000 + 2 * cambox[2]
                               - metadata.scan_distance_mm * 500
                               + Calibration(curr_side, IF scan_direction = 0 THEN 0 ELSE 1)

\* C7: the side and offsets of the capture just processed are decided by its
\* own path: west and (2.070, 2.726, 1.135) when the path holds "west" in
\* this very case, east and (2.070, 0.306, 1.135) otherwise, whatever the
\* captures before it were; its corrected y uses that side's offset and
\* calibration constant, and without projection so does every earlier
\* capture's segment of y_pts.
C7_Side ==
  (Live /\ Len(captures) >= 1) =>
    LET west == ContainsWest(input_paths[Len(captures)])
    IN /\ curr_side = (IF west THEN "west" ELSE "east")
       /\ cambox = (IF west THEN <<2070000, 2726000, 1135000>> ELSE <<2070000, 306000, 1135000>>)
       /\ \A k \in 1..Len(fix_y) :
            fix_y[k] = merged_y[k] + (IF west THEN 2 * 2726000 ELSE 2 * 306000)
                       - scan_distance \div 2
                       + Calibration(IF west THEN "west" ELSE "east",
                                     IF scan_direction = 0 THEN 0 ELSE 1)
       /\ ~utm =>
            \A i \in 1..Len(captures) :
              LET seg == Segment(y_pts, i)
                  shift == (IF ContainsWest(input_paths[i]) THEN 2 * 2726000 ELSE 2 * 306000)
                           - scan_distance \div 2
                           + Calibration(IF ContainsWest(input_paths[i]) THEN "west" ELSE "east",
                                         IF scan_direction = 0 THEN 0 ELSE 1)
              IN \A k \in 1..Len(captures[i]) : seg[k] = captures[i][k][2] + shift
C7_Witness ==
  /\ Live /\ Len(captures) = 2
  /\ ContainsWest(input_paths[1])
  /\ input_paths[2] = PathJoin(working_folder, CapsFile)
  /\ curr_side = "east" /\ cambox[2] = 306000

\* C8: the written header's x_min/x_max are the minimum/maximum of the merged
\* y array and its y_min/y_max those of the merged x array, the x data is the
\* merged y array and the y data the merged x array, and the offset is
\* [floor(min y), floor(min x), floor(min z)].
C8_AxisSwap ==
  las.closed =>
    /\ IsMinOf(las.x_min, y_pts) /\ IsMaxOf(las.x_max, y_pts)
    /\ IsMinOf(las.y_min, x_pts) /\ IsMaxOf(las.y_max, x_pts)
    /\ IsMinOf(las.z_min, z_pts) /\ IsMaxOf(las.z_max, z_pts)
    /\ las.x = y_pts /\ las.y = x_pts /\ las.z = z_pts
    /\ \A a \in 1..3 :
         /\ las.offset[a] % Micro = 0
         /\ las.offset[a] <= <<las.x_min, las.y_min, las.z_min>>[a]
         /\ <<las.x_min, las.y_min, las.z_min>>[a] < las.offset[a] + Micro
C8_Witness ==
  /\ pc = "written" /\ las.closed /\ ~utm
  /\ las.x_min # bounds[1] /\ las.y_min # bounds[3]
  /\ las.x_min # las.y_min /\ las.x # las.y
  /\ las.offset[1] # las.x_min

\* C9: once the read or the projection of capture k raises (or its point
\* array is empty), no later capture is processed (idx stays k and k - 1
\* captures were folded), no merged array and no bounds exist, the writer is
\* never opened, and perform_process ends with code -1, an error message and
\* no file entry.
C9_AllOrNothing ==
  raised \in {"read", "projection", "empty"} =>
    /\ pc \in {"raised", "done"}
    /\ Len(captures) = idx - 1
    /\ x_pts = <<>> /\ y_pts = <<>> /\ z_pts = <<>>
    /\ bounds = <<>>
    /\ ~las.opened
    /\ (caller = "perform_process" /\ pc = "done") =>
         /\ result.code = -1
         /\ "error" \in DOMAIN result
         /\ "file" \notin DOMAIN result
C9_Witness ==
  /\ pc = "done" /\ caller = "perform_process" /\ raised = "projection"
  /\ idx = 2 /\ Len(input_paths) = 2 /\ Len(captures) = 1
  /\ result.code = -1 /\ ~las.opened

\* C10: a scan_direction other than 0 and 1 is processed as direction 1: the
\* corrected y takes the direction-1 calibration constant (4.2 east, -3.43
\* west), the pair projected takes the +0.4 term, and a run in which no
\* collaborator raises ends with code 0.
C10_OtherDirections ==
  (scan_direction \notin {0, 1} /\ caller # "none") =>
    /\ (raised = "no" /\ Len(captures) >= 1) =>
         \A k \in 1..Len(fix_y) :
           LET gx == fix_x[k] \div 1000 + point_cloud_origin.x
               gy == fix_y[k] \div 1000 + point_cloud_origin.y \div 2 + 400000
           IN /\ fix_y[k] = merged_y[k] + 2 * cambox[2] - scan_distance \div 2
                            + (IF curr_side = "east" THEN 4200000 ELSE -3430000)
              /\ utm_x[k] = geo.ax + geo.bx * gx + geo.cx * gy
              /\ utm_y[k] = geo.ay + geo.by * gx + geo.cy * gy
    /\ raised \in {"no", "read", "projection", "empty", "unbound", "write"}
    /\ (pc = "done" /\ raised = "no" /\ caller = "perform_process") => result.code = 0
C10_Witness ==
  /\ pc = "done" /\ caller = "perform_process" /\ raised = "no"
  /\ scan_direction = 2 /\ Len(captures) = 2
  /\ result.code = 0 /\ las.closed

====
